---- MODULE Spec2Model ----
(***************************************************************************)
(* Model of encoder.py: the WAV reader and writer, the clamp, and the two  *)
(* commands encode and decode acting on the files <out_file>.npz,          *)
(* <out_file>.model and <out_file>.wav.                                    *)
(*                                                                         *)
(* Floats are modelled in fixed point: the float 1.0 is the integer Unit,  *)
(* and one integer sample step is Quantum fixed-point steps.  Every value  *)
(* the model feeds to the float arithmetic of encode and decode is a       *)
(* multiple of 1/Unit of magnitude below 2^28, for which binary32 and      *)
(* binary64 compute the same results exactly.                              *)
(*                                                                         *)
(* The trained network is opaque: EncoderPredict gives only the shape of   *)
(* the latent array, DecoderPredict gives any array of the right shape     *)
(* with entries in [0.0, 1.0] (the sigmoid output layer).                  *)
(***************************************************************************)
EXTENDS Integers, Sequences, FiniteSets, TLC

VARIABLES
    pc,          \* position of the running command; "idle" between commands
    last,        \* the command that ran last and how it ended
    data,        \* encode: the flat sample list, then its normalized image
    chans,       \* header parameters held by the running command
    samps,
    width,
    samp_rate,
    rate,        \* encode: the encoding frame width samp_rate//100
    padded,      \* encode: the zero-padded normalized sequence
    chunks,      \* encode: the encoding frames
    encoded,     \* encode: output of encoder.predict; decode: ins['data']
    decoder,     \* the decoder model held by the running command
    out,         \* decode: the list handed to dataToWave
    i,           \* dataToWave: the next index of the write loop
    npzFile,     \* the file <out_file>.npz
    modelFile,   \* the file <out_file>.model
    wavFile,     \* the file <out_file>.wav
    stream,      \* the header of the WAV file read by the encode that is
                 \* running or that last wrote a file
    probe        \* sample-level evaluation: the function applied, input, result

vars == <<pc, last, data, chans, samps, width, samp_rate, rate, padded, chunks,
          encoded, decoder, out, i, npzFile, modelFile, wavFile, stream, probe>>

locals == <<data, chans, samps, width, samp_rate, rate, padded, chunks,
            encoded, decoder, out, i>>

files == <<npzFile, modelFile, wavFile>>

----------------------------------------------------------------------------
(* Bounds and input sets *)

MaxSamps == 2

MaxOver == 3

ChanSet == {1, 2}

WidthSet == {1, 2, 3, 4, 5, 8}

RateSet == {50, 200, 400}

ByteSet == {0, 1, 127, 128, 255}

----------------------------------------------------------------------------
(* Numbers *)

Full == 2^15

Quantum == 2^3

Unit == Quantum * Full

TruncDiv(a, b) == IF a >= 0 THEN a \div b ELSE -((-a) \div b)

Zeros(n) == [k \in 1..n |-> 0]

----------------------------------------------------------------------------
(* struct: little-endian signed integers *)

FmtKnown(sampwidth) == sampwidth \in {1, 2, 3, 4, 8}

\* struct.calcsize of {1:'b',2:'h',3:'i',4:'i',8:'q'}[sampwidth]
FmtSize(sampwidth) ==
    CASE sampwidth = 1 -> 1
      [] sampwidth = 2 -> 2
      [] sampwidth = 3 -> 4
      [] sampwidth = 4 -> 4
      [] sampwidth = 8 -> 8

\* the signed value of a little-endian two's-complement word
RECURSIVE SignedLE(_)
SignedLE(w) ==
    IF Len(w) = 1
    THEN (IF w[1] >= 128 THEN w[1] - 256 ELSE w[1])
    ELSE SignedLE(Tail(w)) * 256 + Head(w)

\* struct.unpack('<{count}{fmt}', s): count words of size bytes each
Unpack(count, size, s) ==
    [k \in 1..count |-> SignedLE(SubSeq(s, (k - 1) * size + 1, k * size))]

\* the little-endian two's-complement bytes of v in size bytes
RECURSIVE BytesLE(_, _)
BytesLE(v, size) ==
    IF size = 0 THEN <<>> ELSE <<v % 256>> \o BytesLE(v \div 256, size - 1)

\* struct.pack('<fmt', v) raises struct.error unless v fits the format
\* (formats of 32 bits and more hold every integer of the model)
PackFits(size, v) ==
    \/ size >= 4
    \/ /\ v >= -(2^(8 * size - 1))
       /\ v <= 2^(8 * size - 1) - 1

Pack(size, v) == BytesLE(v, size)

----------------------------------------------------------------------------
(* dataFromWave *)

\* sampwidth 3: every 3-byte sample gets a zero byte in front of it, which is
\* the low-order byte of the little-endian word.  s is a byte string, as the
\* str of Python 2 that lines 28 and 32 concatenate.
RECURSIVE Widen24High(_)
Widen24High(s) ==
    IF Len(s) < 3 THEN <<>>
    ELSE SubSeq(s, 1, 3) \o <<0>> \o Widen24High(SubSeq(s, 4, Len(s)))

RECURSIVE Widen24(_)
Widen24(s) ==
    IF Len(s) < 3 THEN <<>>
    ELSE <<0>> \o SubSeq(s, 1, 3) \o Widen24(SubSeq(s, 4, Len(s)))

ShiftRight8(k) == k \div 256

dataFromWave(f) ==
    LET s == IF f.sampwidth = 3 THEN Widen24(f.payload) ELSE f.payload
        n == f.nframes * f.nchannels
        x == Unpack(n, FmtSize(f.sampwidth), s)
    IN  [x         |-> IF f.sampwidth = 3
                       THEN [k \in 1..n |-> ShiftRight8(x[k])]
                       ELSE x,
         chans     |-> f.nchannels,
         samps     |-> f.nframes,
         sampwidth |-> f.sampwidth,
         rate      |-> f.framerate]

\* the WAV files a command may be pointed at
SampleWords(w) ==
    { [k \in 1..w |-> IF k = 1 THEN 1 ELSE 0], [k \in 1..w |-> 255] }

RECURSIVE Payloads(_, _)
Payloads(n, w) ==
    IF n = 0 THEN {<<>>}
    ELSE {p \o s : p \in Payloads(n - 1, w), s \in SampleWords(w)}

WavFiles ==
    UNION { { [nchannels |-> c, nframes |-> m, sampwidth |-> w,
               framerate |-> r, payload |-> p] : p \in Payloads(m * c, w) }
            : c \in ChanSet, m \in 0..MaxSamps, w \in WidthSet, r \in RateSet }

----------------------------------------------------------------------------
(* The files of one output prefix *)

NoNpz == [st |-> "absent", fresh |-> FALSE, shape |-> <<0, 0>>,
          params |-> <<0, 0, 0, 0>>]

NoModel == [st |-> "absent", fresh |-> FALSE, latent |-> 0, frame |-> 0]

NoStream == <<0, 0, 0, 0>>

NoWav == [st |-> "absent", fresh |-> FALSE, nchannels |-> 0, sampwidth |-> 0,
          framerate |-> 0, frames |-> <<>>]

\* A file left by an earlier command.  No command reads <out_file>.wav, so
\* of an old one only its presence is kept.
Aged(file) == [file EXCEPT !.fresh = FALSE]

AgedWav(file) ==
    IF file.st = "absent" THEN NoWav ELSE [NoWav EXCEPT !.st = "stale"]

NoLocals ==
    /\ data' = <<>>
    /\ chans' = 0
    /\ samps' = 0
    /\ width' = 0
    /\ samp_rate' = 0
    /\ rate' = 0
    /\ padded' = <<>>
    /\ chunks' = <<>>
    /\ encoded' = <<0, 0>>
    /\ decoder' = NoModel
    /\ out' = <<>>
    /\ i' = 0

\* the command returns, or an exception leaves it
Return(op, err) ==
    /\ pc' = "idle"
    /\ last' = [op |-> op, err |-> err]
    /\ NoLocals

Init ==
    /\ pc = "idle"
    /\ last = [op |-> "none", err |-> "none"]
    /\ data = <<>>
    /\ chans = 0
    /\ samps = 0
    /\ width = 0
    /\ samp_rate = 0
    /\ rate = 0
    /\ padded = <<>>
    /\ chunks = <<>>
    /\ encoded = <<0, 0>>
    /\ decoder = NoModel
    /\ out = <<>>
    /\ i = 0
    /\ npzFile = NoNpz
    /\ modelFile = NoModel
    /\ wavFile = NoWav
    /\ stream = NoStream
    /\ probe = [op |-> "none", arg |-> <<>>, res |-> <<>>]

----------------------------------------------------------------------------
(* encode *)

RescaleNoShift(s) == (s * Quantum) \div 2

\* data.astype(float) / float(pow(2,15)); data += 1.0; data = data / 2.0
Rescale(s) == (s * Quantum + Unit) \div 2

PSizeIfNeeded(n_in, r) ==
    IF n_in % r = 0 THEN n_in ELSE n_in + (r - (n_in % r))

PSize(n_in, r) == n_in + (r - (n_in % r))

\* padded = np.zeros((p_size,)); padded[0:n_in] = data
Pad(d, p_size) == d \o Zeros(p_size - Len(d))

\* np.split(ary, sections): sections equal parts
Split(ary, sections) ==
    LET each == Len(ary) \div sections
    IN  [k \in 1..sections |-> SubSeq(ary, (k - 1) * each + 1, k * each)]

\* encoder.predict(inputs): one latent row of rate//4 values per frame
EncoderPredict(inputs, r) == <<Len(inputs), r \div 4>>

\* line 79: the command starts and reads in_file.  encode is given an
\* out_file prefix that holds no data or model file yet.
EncodeRead ==
    /\ pc = "idle"
    /\ npzFile.st = "absent"
    /\ modelFile.st = "absent"
    /\ npzFile' = Aged(npzFile)
    /\ modelFile' = Aged(modelFile)
    /\ wavFile' = AgedWav(wavFile)
    /\ UNCHANGED probe
    /\ \/ /\ UNCHANGED stream
          /\ Return("encode", "IOError")
       \/ \E f \in WavFiles :
            IF ~FmtKnown(f.sampwidth)
            THEN /\ UNCHANGED stream
                 /\ Return("encode", "KeyError")
            ELSE LET r == dataFromWave(f)
                 IN  /\ stream' = <<f.nchannels, f.nframes, f.sampwidth,
                                    f.framerate>>
                     /\ pc' = "enc_read"
                     /\ last' = [op |-> "encode", err |-> "running"]
                     /\ data' = r.x
                     /\ chans' = r.chans
                     /\ samps' = r.samps
                     /\ width' = r.sampwidth
                     /\ samp_rate' = r.rate
                     /\ UNCHANGED <<rate, padded, chunks, encoded, decoder,
                                    out, i>>

\* lines 82-99: rescale, pad and split
EncodeFrames ==
    /\ pc = "enc_read"
    /\ UNCHANGED <<files, probe>>
    /\ LET r == samp_rate \div 100
           d == [k \in 1..Len(data) |-> Rescale(data[k])]
           n_in == Len(d)
       IN  IF r = 0
           THEN /\ stream' = NoStream
                /\ Return("encode", "ZeroDivisionError")
           ELSE LET p_size == PSize(n_in, r)
                IN  /\ UNCHANGED stream
                    /\ pc' = "enc_frames"
                    /\ rate' = r
                    /\ data' = d
                    /\ padded' = Pad(d, p_size)
                    /\ chunks' = Split(Pad(d, p_size), p_size \div r)
                    /\ UNCHANGED <<last, chans, samps, width, samp_rate,
                                   encoded, decoder, out, i>>

\* lines 101-132: build and train the network, encode the frames
EncodeTrain ==
    /\ pc = "enc_frames"
    /\ UNCHANGED <<files, probe>>
    /\ \/ /\ stream' = NoStream
          /\ Return("encode", "fit")
       \/ /\ UNCHANGED stream
          /\ pc' = "enc_trained"
          /\ encoded' = EncoderPredict(chunks, rate)
          /\ decoder' = [st |-> "ok", fresh |-> TRUE,
                         latent |-> rate \div 4, frame |-> rate]
          /\ UNCHANGED <<last, data, chans, samps, width, samp_rate, rate,
                         padded, chunks, out, i>>

SavedParamsSwapped(c, s, w, r) == <<s, c, w, r>>

\* np.array([chans,samps,width,samp_rate])
SavedParams(c, s, w, r) == <<c, s, w, r>>

\* line 134: np.savez_compressed(out_file, data=..., params=...)
EncodeSaveData ==
    /\ pc = "enc_trained"
    /\ UNCHANGED <<modelFile, wavFile, probe>>
    /\ \/ /\ npzFile' = npzFile
          /\ stream' = NoStream
          /\ Return("encode", "IOError")
       \/ /\ npzFile' = [NoNpz EXCEPT !.st = "partial", !.fresh = TRUE]
          /\ UNCHANGED stream
          /\ Return("encode", "IOError")
       \/ /\ UNCHANGED stream
          /\ npzFile' = [st |-> "ok", fresh |-> TRUE, shape |-> encoded,
                         params |-> SavedParams(chans, samps, width, samp_rate)]
          /\ pc' = "enc_saved"
          /\ UNCHANGED <<last, locals>>

\* line 136: decoder.save(out_file+".model")
EncodeSaveModel ==
    /\ pc = "enc_saved"
    /\ UNCHANGED <<npzFile, wavFile, stream, probe>>
    /\ \/ /\ modelFile' = modelFile
          /\ Return("encode", "IOError")
       \/ /\ modelFile' = [NoModel EXCEPT !.st = "partial", !.fresh = TRUE]
          /\ Return("encode", "IOError")
       \/ /\ modelFile' = decoder
          /\ Return("encode", "ok")

----------------------------------------------------------------------------
(* decode *)

normLow(x) == IF x < -32768 THEN -32768 ELSE x

norm(x) ==
    IF x < -32768 THEN -32768
    ELSE IF x > 32767 THEN 32767
    ELSE x

DenormalizeFloor(f) == (f * 2 - Unit) \div Quantum

\* (((out * 2.0) - 1.0) * float(pow(2,15))).astype(int)
Denormalize(f) == TruncDiv(f * 2 - Unit, Quantum)

\* one element of out after lines 158 and 160
DecodeSample(f) == norm(Denormalize(f))

\* values of the sigmoid output layer: 0.0, 0.5 + 3/Unit and 1.0
OutSet == {0, Unit \div 2 + 3, Unit}

\* decoder.predict(encoded) followed by np.concatenate: any array of
\* encoded.shape[0] rows of decoder.frame values each, flattened
DecoderPredict(model, shape) == [1..(shape[1] * model.frame) -> OutSet]

\* lines 144-151: the command starts and loads the model and the data
DecodeLoad ==
    /\ pc = "idle"
    /\ npzFile' = Aged(npzFile)
    /\ modelFile' = Aged(modelFile)
    /\ wavFile' = AgedWav(wavFile)
    /\ UNCHANGED <<stream, probe>>
    /\ IF modelFile.st # "ok" \/ npzFile.st # "ok"
       THEN Return("decode", "IOError")
       ELSE /\ pc' = "dec_loaded"
            /\ last' = [op |-> "decode", err |-> "running"]
            /\ decoder' = Aged(modelFile)
            /\ encoded' = npzFile.shape
            /\ chans' = npzFile.params[1]
            /\ samps' = npzFile.params[2]
            /\ width' = npzFile.params[3]
            /\ samp_rate' = npzFile.params[4]
            /\ UNCHANGED <<data, rate, padded, chunks, out, i>>

\* lines 153-160: run the decoder, rescale to integers and clamp
DecodePredict ==
    /\ pc = "dec_loaded"
    /\ UNCHANGED <<files, stream, probe>>
    /\ IF encoded[2] # decoder.latent
       THEN Return("decode", "ValueError")
       ELSE \E o \in DecoderPredict(decoder, encoded) :
              /\ pc' = "dec_out"
              /\ out' = [k \in DOMAIN o |-> DecodeSample(o[k])]
              /\ UNCHANGED <<last, data, chans, samps, width, samp_rate,
                             rate, padded, chunks, encoded, decoder, i>>

\* wave.setsampwidth accepts 1 to 4 bytes
WaveWidthOk(sampwidth) == sampwidth >= 1 /\ sampwidth <= 4

\* dataToWave writes range(samps*chans)
WriteCount(s, c) == s * c

\* lines 48-54: the output file is created, then its parameters are set
WaveOpen ==
    /\ pc = "dec_out"
    /\ UNCHANGED <<npzFile, modelFile, stream, probe>>
    /\ IF ~WaveWidthOk(width)
       THEN /\ wavFile' = [NoWav EXCEPT !.st = "open", !.fresh = TRUE,
                                        !.nchannels = chans]
            /\ Return("decode", "wave.Error")
       ELSE /\ wavFile' = [st |-> "open", fresh |-> TRUE, nchannels |-> chans,
                           sampwidth |-> width, framerate |-> samp_rate,
                           frames |-> <<>>]
            /\ pc' = "dec_write"
            /\ i' = 0
            /\ UNCHANGED <<last, data, chans, samps, width, samp_rate, rate,
                           padded, chunks, encoded, decoder, out>>

\* lines 56-57: one pass of the write loop
WaveWrite ==
    /\ pc = "dec_write"
    /\ i < WriteCount(samps, chans)
    /\ UNCHANGED <<npzFile, modelFile, stream, probe>>
    /\ IF i + 1 > Len(out)
       THEN /\ UNCHANGED wavFile
            /\ Return("decode", "IndexError")
       ELSE IF ~PackFits(FmtSize(width), out[i + 1])
       THEN /\ UNCHANGED wavFile
            /\ Return("decode", "struct.error")
       ELSE /\ wavFile' = [wavFile EXCEPT
                  !.frames = Append(@, Pack(FmtSize(width), out[i + 1]))]
            /\ i' = i + 1
            /\ UNCHANGED <<pc, last, data, chans, samps, width, samp_rate,
                           rate, padded, chunks, encoded, decoder, out>>

\* line 58: the loop is over, the file is closed and decode returns
WaveClose ==
    /\ pc = "dec_write"
    /\ i >= WriteCount(samps, chans)
    /\ UNCHANGED <<npzFile, modelFile, stream, probe>>
    /\ wavFile' = [wavFile EXCEPT !.st = "closed"]
    /\ Return("decode", "ok")

Next ==
    \/ EncodeRead
    \/ EncodeFrames
    \/ EncodeTrain
    \/ EncodeSaveData
    \/ EncodeSaveModel
    \/ DecodeLoad
    \/ DecodePredict
    \/ WaveOpen
    \/ WaveWrite
    \/ WaveClose

Spec == Init /\ [][Next]_vars

----------------------------------------------------------------------------
(* The sample-level functions applied to single inputs *)

pipeline == <<pc, last, data, chans, samps, width, samp_rate, rate, padded,
              chunks, encoded, decoder, out, i, npzFile, modelFile, wavFile,
              stream>>

\* norm on integers around and beyond the 16-bit range
ProbeNorm ==
    /\ probe.op = "none"
    /\ \E x \in (-Full - MaxOver)..(Full + MaxOver) :
         probe' = [op |-> "norm", arg |-> <<x>>, res |-> <<norm(x)>>]
    /\ UNCHANGED pipeline

\* encode's rescaling, then decode's rescaling and clamp, on one sample
ProbeRoundTrip ==
    /\ probe.op = "none"
    /\ \E s \in (-Full)..(Full - 1) :
         probe' = [op |-> "roundtrip", arg |-> <<s>>,
                   res |-> <<DecodeSample(Rescale(s))>>]
    /\ UNCHANGED pipeline

\* decode's rescaling and clamp on one decoder output in [0.0, 1.0]
ProbeDecode ==
    /\ probe.op = "none"
    /\ \E f \in 0..Unit :
         probe' = [op |-> "decode", arg |-> <<f>>,
                   res |-> <<Denormalize(f), DecodeSample(f)>>]
    /\ UNCHANGED pipeline

\* dataFromWave on a one-frame file of sample width 3
ProbeRead24 ==
    /\ probe.op = "none"
    /\ \E c \in ChanSet : \E p \in [1..(3 * c) -> ByteSet] :
         probe' = [op |-> "read24", arg |-> p,
                   res |-> dataFromWave([nchannels |-> c, nframes |-> 1,
                                         sampwidth |-> 3, framerate |-> 100,
                                         payload |-> p]).x]
    /\ UNCHANGED pipeline

NextSample ==
    \/ ProbeNorm
    \/ ProbeRoundTrip
    \/ ProbeDecode
    \/ ProbeRead24

SpecSample == Init /\ [][NextSample]_vars

----------------------------------------------------------------------------
(* Properties *)

EncFramed == {"enc_frames", "enc_trained", "enc_saved"}

Decoding == {"dec_loaded", "dec_out", "dec_write"}

Abs(x) == IF x < 0 THEN -x ELSE x

CexC2 ==
    /\ pc \in {"dec_out", "dec_write"} => Len(out) > stream[2] * stream[1]
    /\ (pc = "dec_write" /\ i < WriteCount(samps, chans)) => i + 1 <= Len(out)
    /\ (pc = "idle" /\ last.op = "decode" /\ last.err # "IOError") =>
           Len(wavFile.frames) = stream[2] * stream[1]

\* C3: with the identity transform, rescaling a 16-bit sample as encode does
\* and then rescaling and clamping as decode does gives a value within 1 of
\* the sample.
InvC3 ==
    probe.op = "roundtrip" =>
        /\ probe.arg[1] \in (-32768)..32767
        /\ Abs(probe.res[1] - probe.arg[1]) <= 1

\* C3 witness: the most negative sample has made the round trip
WitC3 ==
    /\ probe.op = "roundtrip"
    /\ probe.arg[1] = -32768
    /\ probe.res[1] = -32768

\* C4: the parameters saved by encode, recovered by decode and set on the
\* output WAV are (channels, sampleCount, sampleWidthBytes, sampleRate) of the
\* input stream, in that order, at every stage.
InvC4 ==
    /\ pc \in EncFramed \cup {"enc_read"} \cup Decoding =>
           <<chans, samps, width, samp_rate>> = stream
    /\ npzFile.st = "ok" => npzFile.params = stream
    /\ pc = "dec_write" =>
           /\ wavFile.nchannels = stream[1]
           /\ wavFile.sampwidth = stream[3]
           /\ wavFile.framerate = stream[4]
           /\ i <= stream[2] * stream[1]
    /\ wavFile.st = "closed" => Len(wavFile.frames) = stream[2] * stream[1]

\* C4 witness: decode is writing the WAV of a 2-channel, 1-frame stream
WitC4 ==
    /\ pc = "dec_write"
    /\ stream[1] = 2
    /\ stream[2] = 1
    /\ i = 2

\* C5: norm(x) is -32768 below -32768, 32767 above 32767 and x otherwise; it
\* is idempotent; every value decode hands to the WAV writer is in
\* [-32768, 32767].
InvC5 ==
    /\ probe.op = "norm" =>
           LET x == probe.arg[1]
               y == probe.res[1]
           IN  /\ x < -32768 => y = -32768
               /\ x > 32767 => y = 32767
               /\ (x >= -32768 /\ x <= 32767) => y = x
               /\ norm(y) = y
    /\ probe.op = "decode" => probe.res[2] \in (-32768)..32767

\* C5 witness: norm has been applied to a value above the range
WitC5 ==
    /\ probe.op = "norm"
    /\ probe.arg[1] > 32767
    /\ probe.res[1] = 32767

\* C6: after a failed encode neither the data container nor the model file
\* written by that call exists.
CexC6 ==
    (pc = "idle" /\ last.op = "encode" /\ last.err # "ok") =>
        /\ ~(npzFile.fresh /\ npzFile.st # "absent")
        /\ ~(modelFile.fresh /\ modelFile.st # "absent")

\* C7: after a failed decode no output WAV created or partly written by that
\* call exists.
CexC7 ==
    (pc = "idle" /\ last.op = "decode" /\ last.err # "ok") =>
        ~(wavFile.fresh /\ wavFile.st # "absent")

\* C8: in the padded sequence the first n elements are the normalized input
\* samples in order and every appended element is the normalized image of the
\* integer sample 0, so that it denormalizes to 0.
CexC8 ==
    pc \in EncFramed =>
        LET n == Len(data)
        IN  /\ SubSeq(padded, 1, n) = data
            /\ \A k \in (n + 1)..Len(padded) :
                   /\ padded[k] = Rescale(0)
                   /\ DecodeSample(padded[k]) = 0

\* C9 as claimed: the integer decode produces before clamping is
\* (f * 2 - 1) * 32768 rounded to the nearest integer.
CexC9 ==
    probe.op = "decode" =>
        LET e == probe.arg[1] * 2 - Unit
        IN  2 * Abs(probe.res[1] * Quantum - e) <= Quantum

\* C9 amended: the integer decode produces before clamping is
\* (f * 2 - 1) * 32768 truncated toward zero.
ThmC9 ==
    probe.op = "decode" =>
        LET e == probe.arg[1] * 2 - Unit
            y == probe.res[1]
        IN  /\ e >= 0 => (y * Quantum <= e /\ e < (y + 1) * Quantum)
            /\ e < 0 => (y * Quantum >= e /\ e > (y - 1) * Quantum)

\* C9 witness: a value whose exact image is -5.75 has become -5
WitC9 ==
    /\ probe.op = "decode"
    /\ probe.arg[1] * 2 - Unit = -46
    /\ probe.res[1] = -5

====
